---- MODULE Spec2Model ----
(***************************************************************************)
(* State-machine model of the bus reminder bot (src/bot.py).               *)
(*                                                                         *)
(* Text is modelled as a sequence of one-character strings, so that        *)
(* strip(), isdigit(), lower() and substring search are computed and not   *)
(* assumed.  The bot runs on one asyncio event loop: update handlers are   *)
(* processed one after the other, the reminder sweep is a second task, and *)
(* tasks switch only where the code awaits.  get_bus_routes is a plain     *)
(* (blocking) function, so nothing else runs while it paginates.           *)
(***************************************************************************)
EXTENDS Integers, Sequences, FiniteSets, TLC

(***************************************************************************)
(* Bounds of the model                                                     *)
(***************************************************************************)
\* batch_size of both paginations (500 in the source), scaled down
BatchSize == 2
\* clock units in one minute
UnitsPerMinute == 2
\* minutes of the modelled day, which starts at 07:59
MinutesPerDay == 3
\* longest reminder list of one subscriber
MaxReminders == 2
\* how late (in clock units) a tick may start after its scheduled time
MaxLatency == 1
\* updates of the reminder handlers waiting to be handled
MaxPending == 1

Chats == {1, 2}

(***************************************************************************)
(* Program constants                                                       *)
(***************************************************************************)
MAX_RETRIES == 3

(***************************************************************************)
(* Text                                                                    *)
(***************************************************************************)
\* the absent value (Python None) of a text- or list-valued slot
None == <<"None">>

Digits == {"0", "1", "2", "3", "4", "5", "6", "7", "8", "9"}

\* the one character ARABIC-INDIC DIGIT THREE: a decimal digit that is not
\* an ASCII digit
ArabicThree == "U+0663"

\* the characters \d matches in a pattern on str: every decimal digit
DecimalDigits == Digits \cup {ArabicThree}
Whitespace == {" "}

Min(a, b) == IF a < b THEN a ELSE b
Max(a, b) == IF a > b THEN a ELSE b

\* one letter of str.lower()
LowerChar(ch) ==
    CASE ch = "B" -> "b" [] ch = "C" -> "c" [] ch = "I" -> "i"
      [] ch = "J" -> "j" [] ch = "N" -> "n" [] ch = "R" -> "r"
      [] ch = "S" -> "s" [] ch = "T" -> "t" [] ch = "U" -> "u"
      [] ch = "V" -> "v" [] ch = "D" -> "d" [] ch = "E" -> "e"
      [] ch = "L" -> "l" [] ch = "Z" -> "z"
      [] OTHER -> ch

\* str.lower()
Lower(s) == [i \in 1..Len(s) |-> LowerChar(s[i])]

\* str.strip(): leading and trailing whitespace removed
RECURSIVE LStrip(_)
LStrip(s) ==
    IF s # <<>> /\ Head(s) \in Whitespace THEN LStrip(Tail(s)) ELSE s
RECURSIVE RStrip(_)
RStrip(s) ==
    IF s # <<>> /\ s[Len(s)] \in Whitespace
    THEN RStrip(SubSeq(s, 1, Len(s) - 1))
    ELSE s
Strip(s) == RStrip(LStrip(s))

\* str.isdigit(): non-empty and every character a digit
IsDigit(s) == s # <<>> /\ \A i \in 1..Len(s) : s[i] \in Digits

\* q in s (substring)
Contains(s, q) ==
    \E i \in 0..(Len(s) - Len(q)) : SubSeq(s, i + 1, i + Len(q)) = q

(***************************************************************************)
(* The upstream transit API (LTA DataMall), as the data it serves          *)
(***************************************************************************)
Svc970 == <<"9", "7", "0">>
Svc12 == <<"1", "2">>
Svc99 == <<"9", "9">>

Code28009 == <<"2", "8", "0", "0", "9">>
Code28019 == <<"2", "8", "0", "1", "9">>
Code10009 == <<"1", "0", "0", "0", "9">>
Code99999 == <<"9", "9", "9", "9", "9">>

Route(svc, code) == [ServiceNo |-> svc, BusStopCode |-> code]

\* the absent value of a slot that holds a list of route rows
NoRoutes == <<Route(None, None)>>

\* rows the BusRoutes endpoint serves for "$filter=ServiceNo eq '<svc>'", in
\* upstream order; the listing of 970 carries a row of another service, the
\* listing of 12 fills its last page exactly, 99 is no service
UpstreamRoutes(svc) ==
    IF svc = Svc970
    THEN << Route(Svc970, Code28009), Route(Svc12, Code10009),
            Route(Svc970, Code28019) >>
    ELSE IF svc = Svc12
    THEN [i \in 1..BatchSize |->
            IF i = 1 THEN Route(Svc12, Code10009) ELSE Route(Svc12, Code28009)]
    ELSE <<>>

\* rows the BusStops endpoint serves, in upstream order
UpstreamStops ==
    << [BusStopCode |-> Code28009,
        Description |-> <<"J", "u", " ", "I", "n", "t">>,
        RoadName |-> <<"J", "u", " ", "C", "t", "l">>],
       [BusStopCode |-> Code28019,
        Description |-> <<"J", "u", " ", "S", "t", "n">>,
        RoadName |-> <<"V", "e", " ", "R", "d">>],
       [BusStopCode |-> Code10009,
        Description |-> <<"B", "t", " ", "I", "n", "t">>,
        RoadName |-> <<"B", "t", " ", "R", "d">>] >>

\* one page of a listing: "$top" = BatchSize rows from "$skip"
Page(rows, skip) == SubSeq(rows, skip + 1, Min(skip + BatchSize, Len(rows)))

\* what one HTTP request can end in
Outcomes == {"ok", "timeout", "reqerr", "non200", "decode"}

(***************************************************************************)
(* Maps (Python dicts read by key)                                         *)
(***************************************************************************)
EmptyMap == [k \in {} |-> None]
Put(m, k, v) == [x \in DOMAIN m \cup {k} |-> IF x = k THEN v ELSE m[x]]

(***************************************************************************)
(* State                                                                   *)
(***************************************************************************)
VARIABLES
    all_bus_stops_cache,  \* stop_code -> [code, name, road]
    bus_route_cache,      \* service_no -> list of route rows
    user_reminders,       \* chat_id -> list of reminders (dict in entry order)
    conv,                 \* ConversationHandler state of each chat
    user_data,            \* context.user_data of each user
    queue,                \* updates sent and not yet handled, in arrival order
    h,                    \* the handler task of each chat: where it stands
    calls,                \* history of get_bus_routes, per service number
    sweep,                \* the check_reminders task: where it stands
    clock,                \* wall clock and the job queue's schedule
    outbox,               \* history of the notifications of the sweep
    loader,               \* main() and its call of load_all_bus_stops
    table,                \* the items of the DynamoDB table of reminders
    effective_user        \* the user who writes in each chat

cacheVars == <<all_bus_stops_cache, bus_route_cache>>
convVars == <<conv, user_data>>
taskVars == <<queue, h, calls>>
sweepVars == <<user_reminders, sweep, clock, outbox>>
bootVars == <<loader, table, effective_user>>

\* update.effective_user.id of the updates of chat c: context.user_data
\* is kept per user, the conversation per chat and user, user_reminders
\* per chat
UserOf(c) == effective_user[c]
vars == <<cacheVars, convVars, taskVars, sweepVars, bootVars>>

(***************************************************************************)
(* Stop directory: load_all_bus_stops                                      *)
(***************************************************************************)
\* the cache entry made of one upstream row
StopEntry(row) ==
    [code |-> row.BusStopCode,
     name |-> IF row.Description # <<>> THEN row.Description
              ELSE IF row.RoadName # <<>> THEN row.RoadName
              ELSE <<"S", "t", "o", "p", " ">> \o row.BusStopCode,
     road |-> row.RoadName]

\* the directory once the first n upstream rows are cached (a later row
\* with the same code replaces the earlier one)
RECURSIVE DirAfter(_)
DirAfter(n) ==
    IF n = 0 THEN EmptyMap
    ELSE Put(DirAfter(n - 1), UpstreamStops[n].BusStopCode,
             StopEntry(UpstreamStops[n]))

\* the directories load_all_bus_stops can leave: whole pages, up to the first
\* failing page or the first page shorter than the batch size
Directories ==
    {DirAfter(Min(k * BatchSize, Len(UpstreamStops))) :
        k \in 0..((Len(UpstreamStops) \div BatchSize) + 1)}

\* the answers a request for a page of stops can get: those of Outcomes and
\* a 200 answer whose JSON body is not an object
LoadOutcomes == Outcomes \cup {"notdict"}

\* main() past load_all_bus_stops: the application polls for updates; token
\* and key tell whether TELEGRAM_BOT_TOKEN and LTA_API_KEY are set in the
\* environment of the process
NoLoad ==
    [pc |-> "done", rows |-> 0, skip |-> 0, reqs |-> 0, end |-> "",
     token |-> TRUE, key |-> TRUE]

\* what a request sent without an AccountKey can end in: the upstream
\* refuses it, or it does not get through
KeylessOutcomes == {"non200", "timeout", "reqerr"}

Running == loader.pc = "done"

\* for stop in stops: all_bus_stops_cache[code] = {...}
RECURSIVE CacheStops(_, _)
CacheStops(cache, stops) ==
    IF stops = <<>> THEN cache
    ELSE CacheStops(Put(cache, Head(stops).BusStopCode, StopEntry(Head(stops))),
                    Tail(stops))

\* len(stops) < batch_size
LastPage(stops) == Len(stops) < BatchSize

\* one turn of the loop of load_all_bus_stops: the request for the page at
\* skip is answered by o; the upstream listing has loader.rows rows
LoadPage(o) ==
    /\ loader.pc = "load"
    /\ loader.key \/ o \in KeylessOutcomes
    /\ LET stops == IF o = "ok"
                    THEN Page(SubSeq(UpstreamStops, 1, loader.rows), loader.skip)
                    ELSE <<>>
           f == [loader EXCEPT !.reqs = loader.reqs + 1]
       IN  IF o \in {"timeout", "reqerr", "non200", "decode"}
           THEN /\ loader' = [f EXCEPT !.pc = "returned", !.end = o]
                /\ UNCHANGED all_bus_stops_cache
           ELSE IF o = "notdict"
           THEN /\ loader' = [f EXCEPT !.pc = "raised", !.end = "AttributeError"]
                /\ UNCHANGED all_bus_stops_cache
           ELSE IF stops = <<>>
           THEN /\ loader' = [f EXCEPT !.pc = "returned", !.end = "empty"]
                /\ UNCHANGED all_bus_stops_cache
           ELSE /\ all_bus_stops_cache' = CacheStops(all_bus_stops_cache, stops)
                /\ loader' = IF LastPage(stops)
                             THEN [f EXCEPT !.pc = "returned", !.end = "short"]
                             ELSE [f EXCEPT !.skip = loader.skip + BatchSize]
    /\ UNCHANGED <<bus_route_cache, convVars, taskVars, sweepVars, table, effective_user>>

\* main() after load_all_bus_stops has returned: the application is built,
\* the sweep is scheduled and the handlers are registered
MainRun ==
    /\ loader.pc = "returned"
    /\ loader' = [NoLoad EXCEPT !.token = loader.token, !.key = loader.key]
    /\ UNCHANGED <<cacheVars, convVars, taskVars, sweepVars, table, effective_user>>

(***************************************************************************)
(* The record store: dynamodb_helper                                       *)
(***************************************************************************)
Item(reminder_id, chat_id) == [reminder_id |-> reminder_id, chat_id |-> chat_id]

NoDbCall == [fn |-> "", id |-> "", result |-> FALSE]

\* (mutant) the key of delete_item matches every item
KeyMatches_Any(item, reminder_id) == TRUE

\* Key={'reminder_id': reminder_id}
KeyMatches(item, reminder_id) == item.reminder_id = reminder_id

\* delete_reminder(reminder_id); o is what table.delete_item does: "ok" or
\* "ClientError"
DbDeleteReminder(reminder_id, o) ==
    LET old == {item \in table.items : KeyMatches(item, reminder_id)}
        call == [fn |-> "delete_reminder", id |-> reminder_id, result |-> FALSE]
    IN  /\ table' =
              IF reminder_id = ""
              THEN [table EXCEPT !.last = call]
              ELSE IF o = "ClientError"
              THEN [table EXCEPT !.last = call]
              ELSE [items |-> table.items \ old,
                    last |-> [call EXCEPT !.result = old # {}]]
        /\ UNCHANGED <<cacheVars, convVars, taskVars, sweepVars, loader, effective_user>>

(***************************************************************************)
(* Route cache: get_bus_routes                                             *)
(***************************************************************************)
\* (mutant) the cache is never consulted
CacheHit_Never(cache, service_no) == FALSE

\* the cache test at the head of get_bus_routes
CacheHit(cache, service_no) == service_no \in DOMAIN cache

\* (mutant) the rows of a page are kept whatever their service number
FilterRoutes_KeepAll(routes, service_no) == routes

\* the defensive filter on the rows of one page:
\* [r for r in routes if str(r.get("ServiceNo", "")) == service_no]
FilterRoutes(routes, service_no) ==
    SelectSeq(routes, LAMBDA r : r.ServiceNo = service_no)

\* (mutant) one more attempt than MAX_RETRIES
RetryAfterTimeout_OneMore(attempt) == attempt < MAX_RETRIES

\* a timed-out attempt is followed by another one
RetryAfterTimeout(attempt) == attempt < MAX_RETRIES - 1

\* The frame of one get_bus_routes call.  pc is "fetch" between two
\* requests and "ret" once the call has returned; attempt counts the
\* timed-out requests of the current page; reqs counts the requests and last
\* is the outcome of the latest one; end tells how it returned;
\* write tells whether it stored its result in bus_route_cache.
GbrEnter(cache, service_no) ==
    IF CacheHit(cache, service_no)
    THEN [pc |-> "ret", svc |-> service_no, skip |-> 0, attempt |-> 0,
          all_routes |-> <<>>, reqs |-> 0, last |-> "", end |-> "hit",
          result |-> cache[service_no], write |-> FALSE]
    ELSE [pc |-> "fetch", svc |-> service_no, skip |-> 0, attempt |-> 0,
          all_routes |-> <<>>, reqs |-> 0, last |-> "", end |-> "",
          result |-> NoRoutes, write |-> FALSE]

\* "return []" out of the retry loop: nothing is cached
GbrAbort(f, how) ==
    [f EXCEPT !.pc = "ret", !.end = how, !.result = <<>>]

\* (mutant) an empty result is returned without being cached
GbrBreak_EmptyNotCached(f, all, how) ==
    [f EXCEPT !.pc = "ret", !.end = how, !.all_routes = all,
              !.result = all, !.write = all # <<>>]

\* "break" out of the pagination loop: all_routes is cached and returned
GbrBreak(f, all, how) ==
    [f EXCEPT !.pc = "ret", !.end = how, !.all_routes = all,
              !.result = all, !.write = TRUE]

\* one request of the call in frame f, ending in outcome o
GbrStep(f, o) ==
    LET g == [f EXCEPT !.reqs = f.reqs + 1, !.last = o]
        routes == Page(UpstreamRoutes(f.svc), f.skip)
        all == f.all_routes \o FilterRoutes(routes, f.svc)
    IN  IF o = "timeout"
        THEN IF RetryAfterTimeout(f.attempt)
             THEN [g EXCEPT !.attempt = f.attempt + 1]
             ELSE GbrAbort(g, "timeout")
        ELSE IF o = "reqerr" THEN GbrAbort(g, "reqerr")
        ELSE IF o = "non200" THEN GbrBreak(g, f.all_routes, "non200")
        ELSE IF o = "decode" THEN GbrBreak(g, f.all_routes, "decode")
        ELSE IF routes = <<>> THEN GbrBreak(g, f.all_routes, "empty")
        ELSE IF Len(routes) < BatchSize THEN GbrBreak(g, all, "short")
        ELSE [g EXCEPT !.all_routes = all, !.skip = f.skip + BatchSize,
                       !.attempt = 0]

\* bus_route_cache after the call in frame f has returned
CacheAfter(cache, f) ==
    IF f.pc = "ret" /\ f.write THEN Put(cache, f.svc, f.result) ELSE cache

(***************************************************************************)
(* Wall clock and the job queue's schedule                                 *)
(***************************************************************************)
\* The clock counts units of 1/UnitsPerMinute minute through a week of days
\* of MinutesPerDay minutes: no reminder of the model is set outside
\* 07:59 .. 07:59 + MinutesPerDay - 1, so the rest of the day is left out.
WeekUnits == 7 * MinutesPerDay * UnitsPerMinute

DayStart == 7 * 60 + 59

\* datetime.weekday(): Monday is 0
WeekdayAt(t) == (t \div (MinutesPerDay * UnitsPerMinute)) % 7

MinuteOfDayAt(t) == DayStart + ((t \div UnitsPerMinute) % MinutesPerDay)

DigitChar(n) ==
    CASE n = 0 -> "0" [] n = 1 -> "1" [] n = 2 -> "2" [] n = 3 -> "3"
      [] n = 4 -> "4" [] n = 5 -> "5" [] n = 6 -> "6" [] n = 7 -> "7"
      [] n = 8 -> "8" [] n = 9 -> "9"

DigitVal(ch) ==
    CASE ch = "0" -> 0 [] ch = "1" -> 1 [] ch = "2" -> 2 [] ch = "3" -> 3
      [] ch = "4" -> 4 [] ch = "5" -> 5 [] ch = "6" -> 6 [] ch = "7" -> 7
      [] ch = "8" -> 8 [] ch = "9" -> 9 [] ch = ArabicThree -> 3

\* strftime("%H:%M") of a minute of the day
FormatHHMM(m) ==
    << DigitChar((m \div 60) \div 10), DigitChar((m \div 60) % 10), ":",
       DigitChar((m % 60) \div 10), DigitChar((m % 60) % 10) >>

(***************************************************************************)
(* user_reminders: a dict, iterated while handlers change it               *)
(***************************************************************************)
\* The dict is its entry table in insertion order: a deleted key leaves a
\* dead entry behind, a new key is appended.  (The table is repacked only
\* when its sixth entry is added, which the bounds do not reach.)  value is
\* the list object of the entry; the list of a dead entry is empty.
DictLive(d) == {i \in 1..Len(d) : d[i].live}
DictUsed(d) == Cardinality(DictLive(d))
DictFind(d, k) ==
    IF \E i \in DictLive(d) : d[i].key = k
    THEN CHOOSE i \in DictLive(d) : d[i].key = k
    ELSE 0
DictInsert(d, k, v) == Append(d, [key |-> k, live |-> TRUE, value |-> v])
DictPop(d, k) ==
    [i \in 1..Len(d) |->
        IF d[i].live /\ d[i].key = k THEN [d[i] EXCEPT !.live = FALSE] ELSE d[i]]

\* next() of the iterator of user_reminders.items(): "error" when the size
\* changed, or when an entry is found after as many entries were returned
\* as the dict had; "stop" past the last entry; else the entry found
DictIterNext(d, it) ==
    LET rest == {i \in DictLive(d) : i > it.di_pos}
        i == CHOOSE j \in rest : \A k \in rest : j <= k
    IN  IF it.di_used # DictUsed(d) THEN [kind |-> "error", ent |-> 0]
        ELSE IF rest = {} THEN [kind |-> "stop", ent |-> 0]
        ELSE IF it.di_len = 0 THEN [kind |-> "error", ent |-> 0]
        ELSE [kind |-> "item", ent |-> i]

\* The EstimatedArrival of a bus: the key is absent, the text is empty, it
\* is no ISO timestamp ("garbage"), it is a timestamp without a time zone
\* ("naive") or it is the timestamp of the instant at (in seconds)
NoEstimate == [kind |-> "absent", at |-> 0]
Stamp(at) == [kind |-> "stamp", at |-> at]

\* what get_bus_arrival returns: the service's entry, or None (non-200
\* response, exception, or the service not in the answer)
NoService == [found |-> FALSE, NextBus |-> NoEstimate, NextBus2 |-> NoEstimate]
Service(e1, e2) == [found |-> TRUE, NextBus |-> e1, NextBus2 |-> e2]

\* datetime.now(timezone.utc), in seconds, at clock time t
NowSeconds(t) == t * (60 \div UnitsPerMinute)

\* int(x / y): the quotient truncated toward zero
IntDiv(x, y) == IF x >= 0 THEN x \div y ELSE 0 - ((0 - x) \div y)

\* what minutes_to_arrival returns: None or a number of minutes
NoMinutes == [none |-> TRUE, min |-> 0]
Minutes(n) == [none |-> FALSE, min |-> n]

\* (mutant) the difference is not clamped at zero
MinutesToArrival_NoClamp(iso_time, now) ==
    IF iso_time.kind # "stamp" THEN NoMinutes
    ELSE Minutes(IntDiv(iso_time.at - now, 60))

\* minutes_to_arrival: an absent or empty text gives None; fromisoformat
\* raises on a text that is no timestamp and the subtraction raises on a
\* naive one, both caught and answered by None
MinutesToArrival(iso_time, now) ==
    IF iso_time.kind \in {"absent", "empty"} THEN NoMinutes
    ELSE IF iso_time.kind \in {"garbage", "naive"} THEN NoMinutes
    ELSE Minutes(Max(0, IntDiv(iso_time.at - now, 60)))

\* (mutant) the bands start one minute earlier
UrgencyBand_Strict(next_arrival) ==
    IF next_arrival < 2 THEN "run"
    ELSE IF next_arrival < 5 THEN "shortly"
    ELSE "time"

\* the urgency line of format_arrival_message
UrgencyBand(next_arrival) ==
    IF next_arrival <= 2 THEN "run"
    ELSE IF next_arrival <= 5 THEN "shortly"
    ELSE "time"

\* a message of the sweep: the "Could not fetch arrival" notice or the
\* arrival message with its urgency band and the two numbers of minutes
NoMessage ==
    [kind |-> "", bus |-> None, band |-> "", next |-> NoMinutes,
     second |-> NoMinutes]
Notice(bus) == [NoMessage EXCEPT !.kind = "notice", !.bus = bus]

\* format_arrival_message
FormatArrivalMessage(service, bus_number, now) ==
    LET next_arrival == MinutesToArrival(service.NextBus, now)
        next2_arrival == MinutesToArrival(service.NextBus2, now)
        msg == [NoMessage EXCEPT !.kind = "arrival", !.bus = bus_number]
    IN  IF next_arrival.none THEN [msg EXCEPT !.band = "nodata"]
        ELSE [msg EXCEPT !.band = UrgencyBand(next_arrival.min),
                         !.next = next_arrival, !.second = next2_arrival]

\* the answers of the arrival query, their timestamps given as offsets (in
\* seconds) from the time of the query: the first bus at an offset of
\* EstimateOffsets, or without a usable timestamp
EstimateOffsets == {-90, -30, 0, 59, 120, 180, 300, 360}

Estimates ==
    {[kind |-> k, at |-> 0] : k \in {"absent", "empty", "garbage", "naive"}}
        \cup {Stamp(d) : d \in EstimateOffsets}

Arrivals ==
    {NoService} \cup
    {Service(e1, e2) : e1 \in Estimates, e2 \in {NoEstimate, Stamp(600)}}

\* the same, with one answer that has service data
ArrivalsFew == {NoService, Service(Stamp(180), Stamp(600))}

\* the answer with its timestamps as instants, for a query made at now
EstimateAt(e, now) == IF e.kind = "stamp" THEN Stamp(now + e.at) ELSE e
ArrivalAt(answer, now) ==
    [answer EXCEPT !.NextBus = EstimateAt(@, now),
                   !.NextBus2 = EstimateAt(@, now)]

\* the callback data of the two day-scope buttons
Weekdays == <<"w", "e", "e", "k", "d", "a", "y", "s">>
Everyday == <<"e", "v", "e", "r", "y", "d", "a", "y">>

NoReminder ==
    [id |-> 0, bus_number |-> None, bus_stop |-> None, bus_stop_name |-> None,
     days |-> None, time |-> None]

\* the check_reminders task: pc is "idle", "outer" (at the for over the
\* dict), "inner" (at the for over one list), "send" (suspended at
\* send_message) or "crashed" (it raised); rem, fired and sent tell of the
\* reminder it looked at last
IdleSweep ==
    [pc |-> "idle", now |-> None, weekday |-> 0, at |-> 0,
     di_used |-> 0, di_pos |-> 0, di_len |-> 0, ent |-> 0, li |-> 0,
     rem |-> NoReminder, fired |-> FALSE, arrival |-> NoService,
     msg |-> NoMessage, err |-> "", tried |-> {}, prev |-> -1]

\* check_reminders runs without awaiting between two send_message calls
SweepRunning == sweep.pc \in {"outer", "inner"}

(***************************************************************************)
(* Handler tasks                                                           *)
(***************************************************************************)
NoCall ==
    [pc |-> "none", svc |-> None, skip |-> 0, attempt |-> 0,
     all_routes |-> <<>>, reqs |-> 0, last |-> "", end |-> "",
     result |-> NoRoutes, write |-> FALSE]

NoStop == [code |-> None, name |-> None, road |-> None]

\* what validate_bus_stop_input returns: None, the multiple-matches message
\* (a str) or a stop record
VNone == [kind |-> "none", stop |-> NoStop]
VMultiple == [kind |-> "multiple", stop |-> NoStop]
VStop(code, name) ==
    [kind |-> "stop", stop |-> [code |-> code, name |-> name, road |-> None]]
VMatch(match) == [kind |-> "stop", stop |-> match]

\* a handler task: pc is "idle", "call" (inside get_bus_routes, which holds
\* the event loop) or "await" (suspended at its reply); next is the
\* conversation state it returns; removed is the reminder delete_reminder
\* popped; cached and ov are history: whether the
\* service number was cached when get_bus_routes was called, and whether the
\* update was pending while another call for that service number was fetching
IdleH ==
    [pc |-> "idle", fn |-> "", text |-> None, call |-> NoCall,
     cached |-> FALSE, ov |-> FALSE, stop |-> NoStop, vres |-> VNone,
     next |-> "", removed |-> NoReminder, reply |-> ""]

NoData ==
    [bus_number |-> None, bus_stop_code |-> None, bus_stop_name |-> None,
     selected_days |-> None, time |-> None]

\* (mutant) an update is handled while another handler is still running
CanDispatch_Concurrent == TRUE

\* updates are handled one at a time (Application.builder() default), and
\* only while no handler is running
CanDispatch == (\A c \in Chats : h[c].pc = "idle") /\ ~SweepRunning

\* the blocking get_bus_routes holds the event loop: no other task runs
LoopHeld == \E c \in Chats : h[c].pc = "call"

Fetching(service_no) ==
    \E c \in Chats : /\ h[c].pc = "call"
                     /\ h[c].call.pc = "fetch"
                     /\ h[c].call.svc = service_no

\* the service number the handler of a pending text update will look up
WantedService(c, text) ==
    IF conv[c] = "ASK_BUS_NUMBER" THEN Strip(text)
    ELSE IF conv[c] = "ASK_BUS_STOP" THEN user_data[UserOf(c)].bus_number
    ELSE None

MarkOverlap(q, service_no) ==
    [i \in 1..Len(q) |->
        IF q[i].kind = "text" /\ WantedService(q[i].chat, q[i].text) = service_no
        THEN [q[i] EXCEPT !.ov = TRUE]
        ELSE q[i]]

\* the queue once its head is taken and the call in frame f has started
Dequeue(f) ==
    IF f.pc = "fetch" THEN MarkOverlap(Tail(queue), f.svc) ELSE Tail(queue)

NoPending(c) == \A i \in 1..Len(queue) : queue[i].chat # c

\* history of get_bus_routes: the result of the first call that returned, the
\* result of the call that wrote the cache entry, the number of writes (2 is
\* "more than one"), the service numbers whose pagination completed with no
\* matching row
CallsAfterWrite(f) ==
    IF f.pc = "ret" /\ f.write
    THEN [calls EXCEPT
            !.wrote = Put(calls.wrote, f.svc, f.result),
            !.none = IF f.result = <<>> /\ f.end \in {"empty", "short"}
                     THEN calls.none \cup {f.svc} ELSE calls.none,
            !.writes = Put(calls.writes, f.svc,
                           IF f.svc \in DOMAIN calls.writes THEN 2 ELSE 1)]
    ELSE calls

CallsAfterReturn(f) ==
    IF f.svc \in DOMAIN calls.first THEN calls
    ELSE [calls EXCEPT !.first = Put(calls.first, f.svc, f.result)]

(***************************************************************************)
(* Users                                                                   *)
(***************************************************************************)
BusTexts == {Svc970, Svc12, <<" ">> \o Svc99 \o <<" ">>}

Send(c, kind, text) ==
    /\ NoPending(c)
    /\ h[c].pc = "idle"
    /\ queue' = Append(queue,
                       [chat |-> c, kind |-> kind, text |-> text,
                        ov |-> kind = "text"
                               /\ Fetching(WantedService(c, text))])
    /\ UNCHANGED <<bootVars, cacheVars, convVars, h, calls, sweepVars>>

SendSetBusReminder(c) == Send(c, "setbusreminder", <<>>)

\* /cancel is a fallback of the conversation: it is handled in every state
\* of a conversation that has begun
SendCancel(c) ==
    /\ conv[c] # "END"
    /\ Send(c, "cancel", <<>>)

SendBusNumber(c, text) ==
    /\ conv[c] = "ASK_BUS_NUMBER"
    /\ Send(c, "text", text)

(***************************************************************************)
(* Conversation handlers                                                   *)
(***************************************************************************)
Head1(c, kind) ==
    /\ Running
    /\ queue # <<>>
    /\ CanDispatch
    /\ Head(queue).chat = c
    /\ Head(queue).kind = kind

\* set_bus_reminder: entry point and re-entry of the conversation
SetBusReminder(c) ==
    /\ Head1(c, "setbusreminder")
    /\ h' = [h EXCEPT ![c] = [IdleH EXCEPT !.pc = "await",
                                           !.fn = "set_bus_reminder",
                                           !.next = "ASK_BUS_NUMBER"]]
    /\ queue' = Tail(queue)
    /\ UNCHANGED <<bootVars, cacheVars, convVars, calls, sweepVars>>

\* cancel: the conversation ends, context.user_data is left as it is
Cancel(c) ==
    /\ Head1(c, "cancel")
    /\ h' = [h EXCEPT ![c] = [IdleH EXCEPT !.pc = "await", !.fn = "cancel",
                                           !.next = "END"]]
    /\ queue' = Tail(queue)
    /\ UNCHANGED <<bootVars, cacheVars, convVars, calls, sweepVars>>

\* ask_bus_stop, up to its call of get_bus_routes
AskBusStop(c) ==
    /\ Head1(c, "text")
    /\ conv[c] = "ASK_BUS_NUMBER"
    /\ LET bus_number == Strip(Head(queue).text)
           f == GbrEnter(bus_route_cache, bus_number)
       IN  /\ user_data' = [user_data EXCEPT ![UserOf(c)].bus_number = bus_number]
           /\ h' = [h EXCEPT ![c] =
                      [IdleH EXCEPT !.pc = "call", !.fn = "ask_bus_stop",
                                    !.text = Head(queue).text, !.call = f,
                                    !.cached = bus_number \in DOMAIN bus_route_cache,
                                    !.ov = Head(queue).ov]]
           /\ queue' = Dequeue(f)
    /\ UNCHANGED <<bootVars, cacheVars, conv, calls, sweepVars>>

\* one request of the pagination of get_bus_routes
GbrRequest(c, o) ==
    /\ h[c].pc = "call"
    /\ h[c].call.pc = "fetch"
    /\ LET f == GbrStep(h[c].call, o)
       IN  /\ h' = [h EXCEPT ![c].call = f]
           /\ bus_route_cache' = CacheAfter(bus_route_cache, f)
           /\ calls' = CallsAfterWrite(f)
    /\ UNCHANGED <<bootVars, all_bus_stops_cache, convVars, queue, sweepVars>>

\* ask_bus_stop, from the return of get_bus_routes to its reply
AskBusStopResume(c) ==
    /\ h[c].pc = "call"
    /\ h[c].call.pc = "ret"
    /\ h[c].fn = "ask_bus_stop"
    /\ h' = [h EXCEPT ![c].pc = "await",
                      ![c].next = IF h[c].call.result = <<>>
                                  THEN "ASK_BUS_NUMBER"
                                  ELSE "ASK_BUS_STOP"]
    /\ calls' = CallsAfterReturn(h[c].call)
    /\ UNCHANGED <<bootVars, cacheVars, convVars, queue, sweepVars>>

\* the reply is sent and the handler returns its conversation state
Finish(c) ==
    /\ h[c].pc = "await"
    /\ ~SweepRunning
    /\ h[c].fn \in {"set_bus_reminder", "cancel", "ask_bus_stop", "validate",
                    "ask_time", "save_reminder"}
    /\ h' = [h EXCEPT ![c] = IdleH]
    /\ conv' = [conv EXCEPT ![c] = h[c].next]
    /\ UNCHANGED <<bootVars, cacheVars, user_data, queue, calls, sweepVars>>

(***************************************************************************)
(* Validation: validate_bus_stop_input                                     *)
(***************************************************************************)
\* (mutant) only the stop name is searched
SearchBusStopsByName_NameOnly(dir, query) ==
    {code \in DOMAIN dir : Contains(Lower(dir[code].name), Lower(query))}

\* search_bus_stops_by_name: the stops whose name or road contains the query,
\* case-insensitively
SearchBusStopsByName(dir, query) ==
    {code \in DOMAIN dir :
        \/ Contains(Lower(dir[code].name), Lower(query))
        \/ Contains(Lower(dir[code].road), Lower(query))}

\* Case A of validate_bus_stop_input: the input is a 5-digit code
IsCodeInput(user_input) == IsDigit(user_input) /\ Len(user_input) = 5

\* (mutant) route membership is not checked
IsStopInRoutes_Always(routes, stop_code) == TRUE

\* is_stop_in_bus_route, on the routes get_bus_routes returned
IsStopInRoutes(routes, stop_code) ==
    stop_code \in {routes[i].BusStopCode : i \in 1..Len(routes)}

\* validate_bus_stop_input up to its route check: what it returns at once
\* ("none", "multiple"), or the stop whose membership it goes on to check
ValidateLookup(dir, user_input) ==
    IF IsCodeInput(user_input)
    THEN IF user_input \in DOMAIN dir
         THEN [kind |-> "check", stop |-> dir[user_input]]
         ELSE [kind |-> "none", stop |-> NoStop]
    ELSE LET matches == SearchBusStopsByName(dir, user_input)
         IN  IF matches = {} THEN [kind |-> "none", stop |-> NoStop]
             ELSE IF Cardinality(matches) > 1
             THEN [kind |-> "multiple", stop |-> NoStop]
             ELSE [kind |-> "check",
                   stop |-> dir[CHOOSE code \in matches : TRUE]]

\* (mutant) the single name match is returned without the route check
ValidateAfterRoutes_NameUnchecked(user_input, stop, routes) ==
    IF IsCodeInput(user_input)
    THEN IF IsStopInRoutes(routes, stop.code)
         THEN VStop(stop.code, stop.name) ELSE VNone
    ELSE VMatch(stop)

\* validate_bus_stop_input from its route check on
ValidateAfterRoutes(user_input, stop, routes) ==
    IF ~IsStopInRoutes(routes, stop.code) THEN VNone
    ELSE IF IsCodeInput(user_input) THEN VStop(stop.code, stop.name)
    ELSE VMatch(stop)

StopTexts ==
    { Code28009, <<" ">> \o Code28019 \o <<" ">>, Code10009, Code99999,
      <<"2", "8", "0", "0">>,
      <<"i", "n", "t">>, <<"r", "d">>, <<"S", "T", "N">>,
      <<"c", "t", "l">>, <<"z", "z">> }

SendStopInput(c, text) ==
    /\ conv[c] = "ASK_BUS_STOP"
    /\ Send(c, "text", text)

\* validate_and_process_bus_stop, up to the call of get_bus_routes that
\* is_stop_in_bus_route makes (or to its reply when none is made)
ValidateStop(c) ==
    /\ Head1(c, "text")
    /\ conv[c] = "ASK_BUS_STOP"
    /\ LET user_input == Strip(Head(queue).text)
           bus_number == user_data[UserOf(c)].bus_number
           look == ValidateLookup(all_bus_stops_cache, Strip(user_input))
           f == GbrEnter(bus_route_cache, bus_number)
           t == [IdleH EXCEPT !.fn = "validate", !.text = Head(queue).text]
       IN  IF bus_number = None \/ bus_number = <<>>
           THEN /\ h' = [h EXCEPT ![c] = [t EXCEPT !.pc = "await",
                                                   !.next = "END"]]
                /\ queue' = Tail(queue)
           ELSE IF look.kind = "check"
           THEN /\ h' = [h EXCEPT ![c] =
                           [t EXCEPT !.pc = "call", !.call = f,
                                     !.stop = look.stop,
                                     !.cached = bus_number \in DOMAIN bus_route_cache,
                                     !.ov = Head(queue).ov]]
                /\ queue' = Dequeue(f)
           ELSE /\ h' = [h EXCEPT ![c] =
                           [t EXCEPT !.pc = "await",
                                     !.vres = IF look.kind = "multiple"
                                              THEN VMultiple ELSE VNone,
                                     !.next = "ASK_BUS_STOP"]]
                /\ queue' = Tail(queue)
    /\ UNCHANGED <<bootVars, cacheVars, convVars, calls, sweepVars>>

\* validate_and_process_bus_stop, from the return of get_bus_routes to its
\* reply
ValidateResume(c) ==
    /\ h[c].pc = "call"
    /\ h[c].call.pc = "ret"
    /\ h[c].fn = "validate"
    /\ LET result == ValidateAfterRoutes(Strip(h[c].text), h[c].stop,
                                         h[c].call.result)
       IN  /\ h' = [h EXCEPT ![c].pc = "await",
                             ![c].vres = result,
                             ![c].next = IF result.kind = "stop"
                                         THEN "ASK_DAYS" ELSE "ASK_BUS_STOP"]
           /\ user_data' =
                 IF result.kind = "stop"
                 THEN [user_data EXCEPT
                         ![UserOf(c)].bus_stop_code = result.stop.code,
                         ![c].bus_stop_name = result.stop.name]
                 ELSE user_data
    /\ calls' = CallsAfterReturn(h[c].call)
    /\ UNCHANGED <<bootVars, cacheVars, conv, queue, sweepVars>>

(***************************************************************************)
(* Specification of the route cache: conversations up to the bus number    *)
(***************************************************************************)
\* the application is polling; the table of the record store has no item;
\* every chat is the private chat of its user
InitBoot ==
    /\ loader = NoLoad
    /\ table = [items |-> {}, last |-> NoDbCall]
    /\ effective_user = [c \in Chats |-> c]

InitTasks ==
    /\ conv = [c \in Chats |-> "END"]
    /\ user_data = [c \in Chats |-> NoData]
    /\ queue = <<>>
    /\ h = [c \in Chats |-> IdleH]
    /\ calls = [first |-> EmptyMap, wrote |-> EmptyMap, writes |-> EmptyMap,
              none |-> {}]

InitSweepIdle ==
    /\ user_reminders = <<>>
    /\ sweep = IdleSweep
    /\ clock = [t |-> 0, due |-> 0]
    /\ outbox = [day |-> 0, n |-> EmptyMap]

InitRoutes ==
    /\ InitBoot
    /\ all_bus_stops_cache = DirAfter(Len(UpstreamStops))
    /\ bus_route_cache = EmptyMap
    /\ InitTasks
    /\ InitSweepIdle

NextRoutes ==
    \E c \in Chats :
        \/ SendSetBusReminder(c)
        \/ \E text \in BusTexts : SendBusNumber(c, text)
        \/ SetBusReminder(c)
        \/ AskBusStop(c)
        \/ \E o \in Outcomes : GbrRequest(c, o)
        \/ AskBusStopResume(c)
        \/ Finish(c)

SpecRoutes == InitRoutes /\ [][NextRoutes]_vars

(***************************************************************************)
(* Properties of the route cache (checked under SpecRoutes)                *)
(***************************************************************************)
Returned(c) == h[c].pc = "call" /\ h[c].call.pc = "ret"

Failures == {"timeout", "reqerr", "non200", "decode"}

\* the whole listing of a service number, filtered
CompleteRoutes(service_no) ==
    FilterRoutes(UpstreamRoutes(service_no), service_no)

InFlight == {c \in Chats : h[c].pc = "call" /\ h[c].call.pc = "fetch"}

\* C1: a cache entry is written only by a pagination that completed (ended
\* by an empty or a short page), so every cached value is the complete
\* listing; a call that ended in a failure has written no entry.
C1_CacheNeverPartial ==
    /\ \A s \in DOMAIN bus_route_cache : bus_route_cache[s] = CompleteRoutes(s)
    /\ \A c \in Chats :
          Returned(c) /\ ~h[c].cached /\ h[c].call.end \in Failures
              => h[c].call.svc \notin DOMAIN bus_route_cache

\* C2 as claimed: a call that is not the first one for its service number
\* issues no request and returns what the first call returned.
C2_SecondCallNoRequests ==
    \A c \in Chats :
        Returned(c) /\ h[c].call.svc \in DOMAIN calls.first
            => /\ h[c].call.reqs = 0
               /\ h[c].call.result = calls.first[h[c].call.svc]

\* C2 as amended: at most one pagination writes the cache entry of a service
\* number, and a call made once the entry is written issues no request and
\* returns the result of the call that wrote it.
C2_CachedCallNoRequests ==
    /\ \A s \in DOMAIN calls.writes : calls.writes[s] = 1
    /\ \A c \in Chats :
          Returned(c) /\ h[c].cached
              => /\ h[c].call.reqs = 0
                 /\ h[c].call.svc \in DOMAIN calls.wrote
                 /\ h[c].call.result = calls.wrote[h[c].call.svc]

C2_Witness ==
    \E c \in Chats :
        /\ Returned(c) /\ h[c].cached
        /\ h[c].call.svc \in DOMAIN calls.first
        /\ h[c].call.result # <<>>

\* C3 as claimed: at most one pagination per service number is in flight,
\* and a caller whose request was pending during a fetch of its service
\* number gets that first fetch's result without fetching again.
C3_LaterCallerSharesFirstFetch ==
    /\ \A c1, c2 \in InFlight : h[c1].call.svc = h[c2].call.svc => c1 = c2
    /\ \A c \in Chats :
          Returned(c) /\ h[c].ov
              => /\ h[c].call.reqs = 0
                 /\ h[c].call.svc \in DOMAIN calls.first
                 /\ h[c].call.result = calls.first[h[c].call.svc]

\* C3 as amended: at most one pagination is in flight at any time (a request
\* sent during a fetch is handled after the fetch has returned), and the
\* later caller gets the first fetch's result without a request when that
\* fetch wrote the cache entry.
C3_OneFetchInFlight ==
    /\ Cardinality(InFlight) <= 1
    /\ \A c \in Chats :
          h[c].pc = "call" /\ h[c].ov
              => /\ ~Fetching(h[c].call.svc) \/ InFlight = {c}
                 /\ h[c].cached
                      => /\ h[c].call.pc = "ret"
                         /\ h[c].call.reqs = 0
                         /\ h[c].call.svc \in DOMAIN calls.wrote
                         /\ h[c].call.result = calls.wrote[h[c].call.svc]

C3_Witness ==
    \E c \in Chats :
        /\ Returned(c) /\ h[c].ov /\ h[c].cached
        /\ h[c].call.result # <<>>

(***************************************************************************)
(* Specification of the validation: conversations waiting for the stop     *)
(***************************************************************************)
\* the values get_bus_routes can have stored for a service number: the
\* rows of the pages before the one that ended the pagination
\* C11: a pagination that completes with zero matching rows leaves the
\* service number in the cache with an empty value, the entry stays, and
\* every later call for it returns empty without a request.
C11_EmptyResultIsCached ==
    /\ \A s \in DOMAIN calls.wrote :
          s \in DOMAIN bus_route_cache /\ bus_route_cache[s] = calls.wrote[s]
    /\ \A c \in Chats :
          /\ Returned(c) /\ h[c].call.end \in {"empty", "short"}
                /\ h[c].call.result = <<>>
               => /\ h[c].call.svc \in DOMAIN bus_route_cache
                  /\ bus_route_cache[h[c].call.svc] = <<>>
          /\ h[c].pc = "call" /\ h[c].call.svc \in calls.none /\ h[c].cached
               => /\ h[c].call.pc = "ret"
                  /\ h[c].call.reqs = 0
                  /\ h[c].call.result = <<>>

\* a later call for a service number whose pagination completed empty
C11_Witness ==
    \E c \in Chats :
        /\ Returned(c) /\ h[c].cached
        /\ h[c].call.svc = Svc99
        /\ Svc99 \in calls.none
        /\ h[c].call.reqs = 0
        /\ h[c].call.result = <<>>

\* the call of chat c issues a request in this step
Requests(c) ==
    /\ h[c].pc = "call" /\ h[c].call.pc = "fetch"
    /\ h'[c].call.reqs = h[c].call.reqs + 1

\* C12: a page is requested at most MAX_RETRIES times and is requested again
\* only after a timeout; a request error or a non-200 response ends the call
\* at once; a timeout on the last attempt of a page ends the call.
C12_BoundedRetries ==
    [][\A c \in Chats :
          Requests(c) =>
              /\ h[c].call.attempt + 1 <= MAX_RETRIES
              /\ h'[c].call.pc = "fetch" /\ h'[c].call.skip = h[c].call.skip
                   => /\ h'[c].call.last = "timeout"
                      /\ h'[c].call.attempt = h[c].call.attempt + 1
              /\ h'[c].call.last \in {"reqerr", "non200"}
                   => h'[c].call.pc = "ret"
              /\ h'[c].call.last = "timeout"
                    /\ h[c].call.attempt + 1 = MAX_RETRIES
                   => h'[c].call.pc = "ret" /\ h'[c].call.result = <<>>
              /\ h'[c].call.pc = "fetch" /\ h'[c].call.skip # h[c].call.skip
                   => h'[c].call.attempt = 0 /\ h'[c].call.last = "ok"]_vars

\* a call ended by the timeout of the last attempt of its second page
C12_Witness ==
    \E c \in Chats :
        /\ Returned(c)
        /\ h[c].call.end = "timeout"
        /\ h[c].call.skip = BatchSize
        /\ h[c].call.attempt = MAX_RETRIES - 1
        /\ h[c].call.reqs = 1 + MAX_RETRIES

\* C13: a call whose pagination was aborted by an upstream failure, on
\* whichever page, returns the empty sequence.
C13_FailureReturnsEmpty ==
    \A c \in Chats :
        Returned(c) /\ h[c].call.end \in Failures => h[c].call.result = <<>>

\* the rows of a listing that carry the service number, in the order of the
\* listing
RECURSIVE RowsOfService(_, _)
RowsOfService(rows, service_no) ==
    IF rows = <<>> THEN <<>>
    ELSE IF Head(rows).ServiceNo = service_no
    THEN <<Head(rows)>> \o RowsOfService(Tail(rows), service_no)
    ELSE RowsOfService(Tail(rows), service_no)

\* the offset of the first page of a listing that has fewer than BatchSize
\* rows
LastOffset(rows) == (Len(rows) \div BatchSize) * BatchSize

\* C22: a call that missed the cache and whose pagination met no failing
\* page returns the rows of the upstream listing that carry its service
\* number, in upstream order, and has asked for the pages at 0, BatchSize,
\* ... up to the first page with fewer than BatchSize rows.
C22_ReturnsMatchingRowsInOrder ==
    \A c \in Chats :
        (Returned(c) /\ h[c].call.end \in {"empty", "short"}) =>
            /\ h[c].call.result =
                  RowsOfService(UpstreamRoutes(h[c].call.svc), h[c].call.svc)
            /\ h[c].call.skip = LastOffset(UpstreamRoutes(h[c].call.svc))
            /\ h[c].call.reqs >= (h[c].call.skip \div BatchSize) + 1

C22_Witness ==
    \E c \in Chats :
        /\ Returned(c)
        /\ h[c].call.svc = Svc970
        /\ h[c].call.end = "short"
        /\ h[c].call.skip = BatchSize
        /\ Len(h[c].call.result) = 2
        /\ Len(UpstreamRoutes(Svc970)) = 3

CacheValues(service_no) ==
    LET rows == UpstreamRoutes(service_no)
    IN  {FilterRoutes(SubSeq(rows, 1, Min(k * BatchSize, Len(rows))),
                      service_no) :
            k \in 0..((Len(rows) \div BatchSize) + 1)}

MkCache(v970, v12) ==
    [s \in (IF v970 = NoRoutes THEN {} ELSE {Svc970})
           \cup (IF v12 = NoRoutes THEN {} ELSE {Svc12}) |->
        IF s = Svc970 THEN v970 ELSE v12]

ReachableCaches ==
    {MkCache(v970, v12) : v970 \in CacheValues(Svc970) \cup {NoRoutes},
                          v12 \in CacheValues(Svc12) \cup {NoRoutes}}

\* a chat is asked for its stop only after get_bus_routes returned a
\* non-empty route for its bus number, which is then in the cache
InitValidate ==
    /\ InitBoot
    /\ all_bus_stops_cache \in Directories
    /\ bus_route_cache \in ReachableCaches
    /\ conv = [c \in Chats |-> "ASK_BUS_STOP"]
    /\ user_data \in [Chats -> {[NoData EXCEPT !.bus_number = s] :
                                  s \in DOMAIN bus_route_cache}]
    /\ \A c \in Chats : bus_route_cache[user_data[UserOf(c)].bus_number] # <<>>
    /\ queue = <<>>
    /\ h = [c \in Chats |-> IdleH]
    /\ calls = [first |-> EmptyMap, wrote |-> EmptyMap, writes |-> EmptyMap,
              none |-> {}]
    /\ InitSweepIdle

NextValidate ==
    \E c \in Chats :
        \/ \E text \in StopTexts : SendStopInput(c, text)
        \/ ValidateStop(c)
        \/ ValidateResume(c)
        \/ Finish(c)

SpecValidate == InitValidate /\ [][NextValidate]_vars

(***************************************************************************)
(* Properties of the validation (checked under SpecValidate)               *)
(***************************************************************************)
\* validate_bus_stop_input has returned in the handler of chat c
Validated(c) == h[c].fn = "validate" /\ h[c].pc = "await" /\ h[c].next # "END"

FiveDigits(text) ==
    /\ Len(text) = 5
    /\ \A i \in 1..5 : text[i] \in {"0", "1", "2", "3", "4", "5", "6", "7", "8", "9"}

\* the stop codes of the routes get_bus_routes returned to the handler of c
\* (none when it was not called)
RouteCodesOf(c) ==
    IF h[c].call.pc = "ret"
    THEN {h[c].call.result[i].BusStopCode : i \in 1..Len(h[c].call.result)}
    ELSE {}

\* the stops of the directory whose name or road contains the text, whatever
\* the case of the letters
NameMatches(text) ==
    {code \in DOMAIN all_bus_stops_cache :
        \E field \in {all_bus_stops_cache[code].name,
                      all_bus_stops_cache[code].road} :
            \E i \in 1..Len(field) : \E j \in i-1..Len(field) :
                Lower(SubSeq(field, i, j)) = Lower(text)}

\* C8: for a 5-digit code of the directory the result is the stop {code, name}
\* if the code is among the stop codes of get_bus_routes(busNumber), and absent
\* if it is not; a 5-digit code that is not in the directory gives absent.
C8_CodeValidIffOnRoute ==
    \A c \in Chats :
        LET code == Strip(h[c].text)
        IN  Validated(c) /\ FiveDigits(code)
            => IF code \in DOMAIN all_bus_stops_cache /\ code \in RouteCodesOf(c)
               THEN /\ h[c].vres.kind = "stop"
                    /\ h[c].vres.stop.code = code
                    /\ h[c].vres.stop.name = all_bus_stops_cache[code].name
                    /\ h[c].call.svc = user_data[UserOf(c)].bus_number
               ELSE h[c].vres = VNone

C8_Witness ==
    \E c \in Chats :
        /\ Validated(c) /\ Strip(h[c].text) = Code28009
        /\ user_data[UserOf(c)].bus_number = Svc970
        /\ h[c].vres = VStop(Code28009, <<"J", "u", " ", "I", "n", "t">>)

\* C9: an input that is no 5-digit code and matches two or more stops of the
\* directory gets the multiple-matches message, never a stop, whether or not
\* the matching stops are on the route.
C9_AmbiguousNameGetsGuidance ==
    \A c \in Chats :
        LET text == Strip(h[c].text)
        IN  Validated(c) /\ ~FiveDigits(text) /\ Cardinality(NameMatches(text)) >= 2
            => h[c].vres = VMultiple

C9_Witness ==
    \E c \in Chats :
        /\ Validated(c)
        /\ ~FiveDigits(Strip(h[c].text))
        /\ Cardinality(NameMatches(Strip(h[c].text))) >= 2
        /\ \E code \in NameMatches(Strip(h[c].text)) :
              code \in {bus_route_cache[user_data[UserOf(c)].bus_number][i].BusStopCode :
                          i \in 1..Len(bus_route_cache[user_data[UserOf(c)].bus_number])}
        /\ h[c].vres = VMultiple

\* C10: a free-text input that matches exactly one stop gets that stop if its
\* code is among the stop codes of get_bus_routes(busNumber) and absent if it
\* is not; and every stop validate_bus_stop_input returns is in the directory
\* and on the route of the bus number.
C10_NameRevalidatedOnRoute ==
    \A c \in Chats :
        LET text == Strip(h[c].text)
        IN  /\ Validated(c) /\ ~FiveDigits(text) /\ Cardinality(NameMatches(text)) = 1
               => LET code == CHOOSE m \in NameMatches(text) : TRUE
                  IN  IF code \in RouteCodesOf(c)
                      THEN /\ h[c].vres = VMatch(all_bus_stops_cache[code])
                           /\ h[c].call.svc = user_data[UserOf(c)].bus_number
                      ELSE h[c].vres = VNone
            /\ Validated(c) /\ h[c].vres.kind = "stop"
               => /\ h[c].vres.stop.code \in DOMAIN all_bus_stops_cache
                  /\ h[c].vres.stop.code \in RouteCodesOf(c)
                  /\ h[c].call.svc = user_data[UserOf(c)].bus_number

C10_Witness ==
    \E c \in Chats :
        /\ Validated(c) /\ ~FiveDigits(Strip(h[c].text))
        /\ Cardinality(NameMatches(Strip(h[c].text))) = 1
        /\ h[c].vres.kind = "stop"
        /\ h[c].vres.stop.code \in RouteCodesOf(c)

(***************************************************************************)
(* Handlers of the reminders: ask_time, save_reminder, delete_reminder     *)
(***************************************************************************)
\* re.match(r"^\d{2}:\d{2}$", time_str) on a stripped text
MatchesHHMM(s) ==
    /\ Len(s) = 5
    /\ {s[1], s[2]} \subseteq DecimalDigits
    /\ s[3] = ":"
    /\ {s[4], s[5]} \subseteq DecimalDigits

IsRealTime_AnyHour(s) == s[4] \in {"0", "1", "2", "3", "4", "5"}

\* datetime.strptime(time_str, "%H:%M") does not raise, for a text that
\* matches \d{2}:\d{2}: %H is 2[0-3]|[0-1]\d|\d, %M is [0-5]\d|\d, and
\* the whole text must be converted
IsRealTime(s) ==
    /\ \/ s[1] = "2" /\ s[2] \in {"0", "1", "2", "3"}
       \/ s[1] \in {"0", "1"} /\ s[2] \in DecimalDigits
    /\ s[4] \in {"0", "1", "2", "3", "4", "5"}
    /\ s[5] \in DecimalDigits

\* int(args[0]): [ok, val]; not ok is ValueError
IntOf(s) ==
    LET signed == s # <<>> /\ Head(s) \in {"+", "-"}
        body == IF signed THEN Tail(s) ELSE s
        mag == IF Len(body) = 1 THEN DigitVal(body[1])
               ELSE DigitVal(body[1]) * 10 + DigitVal(body[2])
    IN  IF IsDigit(body) /\ Len(body) <= 2
        THEN [ok |-> TRUE, val |-> IF signed /\ Head(s) = "-" THEN 0 - mag ELSE mag]
        ELSE [ok |-> FALSE, val |-> 0]

\* the list user_reminders.get(chat_id, [])
RemindersOf(d, chat_id) ==
    IF DictFind(d, chat_id) = 0 THEN <<>> ELSE d[DictFind(d, chat_id)].value

AllReminderIds(d) ==
    UNION {{d[i].value[j].id : j \in 1..Len(d[i].value)} : i \in 1..Len(d)}

\* the identity of a newly created reminder
FreshId(d) ==
    CHOOSE n \in 1..(Cardinality(AllReminderIds(d)) + 1) : n \notin AllReminderIds(d)

\* user_reminders[chat_id] = [] if the key is missing, then append
DictAppend(d, chat_id, rem) ==
    IF DictFind(d, chat_id) = 0
    THEN DictInsert(d, chat_id, <<rem>>)
    ELSE [d EXCEPT ![DictFind(d, chat_id)].value = Append(@, rem)]

\* reminders.pop(idx - 1) on the list of chat_id
ListPop(d, chat_id, idx) ==
    [d EXCEPT ![DictFind(d, chat_id)].value =
        SubSeq(@, 1, idx - 1) \o SubSeq(@, idx + 1, Len(@))]

\* the users of the reminder handlers send an update when at most
\* MaxPending - 1 updates wait to be handled
SendDays(c, data) ==
    /\ conv[c] = "ASK_DAYS"
    /\ Len(queue) < MaxPending
    /\ Send(c, "callback", data)

SendTime(c, text) ==
    /\ conv[c] = "ASK_TIME"
    /\ Len(RemindersOf(user_reminders, c)) < MaxReminders
    /\ Len(queue) < MaxPending
    /\ Send(c, "text", text)

\* /deletereminder with its argument (None: no argument)
SendDeleteReminder(c, arg) ==
    /\ Len(queue) < MaxPending
    /\ Send(c, "deletereminder", arg)

\* ask_time, up to await query.answer()
AskTime(c) ==
    /\ Head1(c, "callback")
    /\ conv[c] = "ASK_DAYS"
    /\ h' = [h EXCEPT ![c] = [IdleH EXCEPT !.pc = "await",
                                           !.fn = "ask_time_answer",
                                           !.text = Head(queue).text]]
    /\ queue' = Tail(queue)
    /\ UNCHANGED <<bootVars, cacheVars, convVars, calls, sweepVars>>

\* ask_time, from query.answer() to await query.edit_message_text(...)
AskTimeAnswered(c) ==
    /\ h[c].pc = "await"
    /\ h[c].fn = "ask_time_answer"
    /\ ~SweepRunning
    /\ user_data' = [user_data EXCEPT ![UserOf(c)].selected_days = h[c].text]
    /\ h' = [h EXCEPT ![c].fn = "ask_time", ![c].next = "ASK_TIME"]
    /\ UNCHANGED <<bootVars, cacheVars, conv, queue, calls, sweepVars>>

\* save_reminder, up to its reply
SaveReminder(c) ==
    /\ Head1(c, "text")
    /\ conv[c] = "ASK_TIME"
    /\ LET time_str == Strip(Head(queue).text)
           valid == MatchesHHMM(time_str) /\ IsRealTime(time_str)
           stop_name ==
               IF user_data[UserOf(c)].bus_stop_name \notin {None, <<>>}
               THEN user_data[UserOf(c)].bus_stop_name
               ELSE IF user_data[UserOf(c)].bus_stop_code \in DOMAIN all_bus_stops_cache
               THEN all_bus_stops_cache[user_data[UserOf(c)].bus_stop_code].name
               ELSE None
           rem == [id |-> FreshId(user_reminders),
                   bus_number |-> user_data[UserOf(c)].bus_number,
                   bus_stop |-> user_data[UserOf(c)].bus_stop_code,
                   bus_stop_name |-> stop_name,
                   days |-> user_data[UserOf(c)].selected_days,
                   time |-> time_str]
       IN  /\ h' = [h EXCEPT ![c] =
                      [IdleH EXCEPT !.pc = "await", !.fn = "save_reminder",
                                    !.next = IF valid THEN "END" ELSE "ASK_TIME"]]
           /\ user_data' = IF valid
                           THEN [user_data EXCEPT ![UserOf(c)].time = time_str]
                           ELSE user_data
           /\ user_reminders' = IF valid
                                THEN DictAppend(user_reminders, c, rem)
                                ELSE user_reminders
    /\ queue' = Tail(queue)
    /\ UNCHANGED <<bootVars, cacheVars, conv, calls, sweep, clock, outbox>>

\* delete_reminder, up to its reply
DeleteReminder(c) ==
    /\ Head1(c, "deletereminder")
    /\ LET reminders == RemindersOf(user_reminders, c)
           arg == Head(queue).text
           idx == IntOf(arg)
           pops == /\ reminders # <<>>
                   /\ arg # None
                   /\ idx.ok
                   /\ idx.val >= 1
                   /\ idx.val <= Len(reminders)
       IN  /\ h' = [h EXCEPT ![c] =
                      [IdleH EXCEPT !.pc = "await", !.fn = "delete_reminder",
                                    !.removed = IF pops THEN reminders[idx.val]
                                                ELSE NoReminder,
                                    !.reply =
                                        IF reminders = <<>> THEN "no reminders"
                                        ELSE IF arg = None THEN "usage"
                                        ELSE IF ~idx.ok THEN "not a number"
                                        ELSE IF ~pops THEN "out of range"
                                        ELSE "deleted"]]
           /\ user_reminders' = IF pops
                                THEN ListPop(user_reminders, c, idx.val)
                                ELSE user_reminders
    /\ queue' = Tail(queue)
    /\ UNCHANGED <<bootVars, cacheVars, convVars, calls, sweep, clock, outbox>>

\* delete_reminder, from its reply to its return: the key of an emptied
\* list is removed
DeleteReminderResume(c) ==
    /\ h[c].pc = "await"
    /\ h[c].fn = "delete_reminder"
    /\ ~SweepRunning
    /\ user_reminders' =
         IF h[c].removed # NoReminder /\ RemindersOf(user_reminders, c) = <<>>
         THEN DictPop(user_reminders, c)
         ELSE user_reminders
    /\ h' = [h EXCEPT ![c] = IdleH]
    /\ UNCHANGED <<bootVars, cacheVars, convVars, queue, calls, sweep, clock, outbox>>

(***************************************************************************)
(* The reminder sweep: check_reminders, run by the job queue every minute  *)
(***************************************************************************)
\* (mutant) the time of the reminder is not compared with the tick's
Due_AnyMinute(rem, now, weekday) == ~(rem.days = Weekdays /\ weekday >= 5)

\* the two tests of check_reminders on one reminder
Due(rem, now, weekday) ==
    ~(rem.days = Weekdays /\ weekday >= 5) /\ rem.time = now

\* time passes; a tick starts at most MaxLatency units after its scheduled
\* time, and a sweep is over before the clock moves on
ClockAdvance ==
    /\ sweep.pc \in {"idle", "crashed"}
    /\ clock.due > -MaxLatency
    /\ clock' = [t |-> (clock.t + 1) % WeekUnits, due |-> clock.due - 1]
    /\ UNCHANGED <<bootVars, cacheVars, convVars, taskVars, user_reminders, sweep, outbox>>

\* the job queue starts check_reminders (interval=60): the wall clock is
\* read and the iteration over user_reminders.items() begins
TickStart ==
    /\ Running
    /\ sweep.pc \in {"idle", "crashed"}
    /\ clock.due <= 0
    /\ ~LoopHeld
    /\ sweep' = [IdleSweep EXCEPT
                   !.pc = "outer",
                   !.now = FormatHHMM(MinuteOfDayAt(clock.t)),
                   !.weekday = WeekdayAt(clock.t),
                   !.at = clock.t,
                   !.prev = IF sweep.now = None THEN -1 ELSE sweep.at,
                   !.di_used = DictUsed(user_reminders),
                   !.di_len = DictUsed(user_reminders)]
    /\ clock' = [clock EXCEPT !.due = clock.due + UnitsPerMinute]
    /\ outbox' = IF outbox.day = WeekdayAt(clock.t) THEN outbox
                 ELSE [day |-> WeekdayAt(clock.t), n |-> EmptyMap]
    /\ UNCHANGED <<bootVars, cacheVars, convVars, taskVars, user_reminders>>

\* for chat_id, reminders in user_reminders.items()
SweepOuter ==
    /\ sweep.pc = "outer"
    /\ LET r == DictIterNext(user_reminders, sweep)
       IN  sweep' =
             IF r.kind = "error"
             THEN [sweep EXCEPT !.pc = "crashed", !.err = "RuntimeError"]
             ELSE IF r.kind = "stop"
             THEN [IdleSweep EXCEPT !.now = sweep.now,
                                    !.weekday = sweep.weekday,
                                    !.at = sweep.at, !.tried = sweep.tried,
                                    !.prev = sweep.prev]
             ELSE [sweep EXCEPT !.pc = "inner", !.ent = r.ent,
                                !.di_pos = r.ent,
                                !.di_len = sweep.di_len - 1, !.li = 0]
    /\ UNCHANGED <<bootVars, cacheVars, convVars, taskVars, user_reminders, clock, outbox>>

\* for rem in reminders: the two tests, get_bus_arrival, up to send_message
SweepInner(answer) ==
    /\ sweep.pc = "inner"
    /\ LET reminders == user_reminders[sweep.ent].value
           rem == reminders[sweep.li + 1]
           arrival == ArrivalAt(answer, NowSeconds(clock.t))
       IN  sweep' =
             IF sweep.li >= Len(reminders)
             THEN [sweep EXCEPT !.pc = "outer"]
             ELSE IF Due(rem, sweep.now, sweep.weekday)
             THEN [sweep EXCEPT !.pc = "send", !.li = sweep.li + 1,
                                !.rem = rem, !.fired = TRUE,
                                !.arrival = arrival,
                                !.msg = IF ~arrival.found
                                        THEN Notice(rem.bus_number)
                                        ELSE FormatArrivalMessage(
                                                 arrival, rem.bus_number,
                                                 NowSeconds(clock.t)),
                                !.tried = sweep.tried \cup {rem.id}]
             ELSE [sweep EXCEPT !.li = sweep.li + 1, !.rem = rem,
                                !.fired = FALSE]
    /\ UNCHANGED <<bootVars, cacheVars, convVars, taskVars, user_reminders, clock, outbox>>

\* await context.bot.send_message(...): delivered, or it raises and the
\* exception leaves check_reminders
SendDone(ok) ==
    /\ sweep.pc = "send"
    /\ ~LoopHeld
    /\ sweep' = IF ok
                THEN [sweep EXCEPT !.pc = "inner", !.arrival = NoService,
                                   !.msg = NoMessage]
                ELSE [sweep EXCEPT !.pc = "crashed", !.err = "send",
                                   !.arrival = NoService, !.msg = NoMessage]
    /\ outbox' =
         IF ok
         THEN [outbox EXCEPT !.n =
                 Put(outbox.n, sweep.rem.id,
                     IF sweep.rem.id \in DOMAIN outbox.n THEN 2 ELSE 1)]
         ELSE outbox
    /\ UNCHANGED <<bootVars, cacheVars, convVars, taskVars, user_reminders, clock>>

(***************************************************************************)
(* Specification of the schedule: a week of ticks over stored reminders    *)
(***************************************************************************)
T0800 == <<"0", "8", ":", "0", "0">>
T0801 == <<"0", "8", ":", "0", "1">>

Reminder(id, days, time) ==
    [id |-> id, bus_number |-> Svc970, bus_stop |-> Code28009,
     bus_stop_name |-> <<"J", "u", " ", "I", "n", "t">>,
     days |-> days, time |-> time]

\* lists a subscriber can have stored; b is the first id of the list
StoredLists(b) ==
    { <<>>,
      <<Reminder(b, Weekdays, T0800)>>,
      <<Reminder(b, Everyday, T0800)>>,
      <<Reminder(b, Weekdays, T0800), Reminder(b + 1, Everyday, T0801)>> }

\* the dict of the chats that have a non-empty list, in the order of keys
StoredDict(keys, lists) ==
    LET ks == SelectSeq(keys, LAMBDA c : lists[c] # <<>>)
    IN  [i \in 1..Len(ks) |->
            [key |-> ks[i], live |-> TRUE, value |-> lists[ks[i]]]]

StoredDicts ==
    {StoredDict(keys, <<l1, l2>>) :
        keys \in {<<1, 2>>, <<2, 1>>},
        l1 \in StoredLists(1), l2 \in StoredLists(1 + MaxReminders)}

InitClock ==
    /\ InitBoot
    /\ all_bus_stops_cache = DirAfter(Len(UpstreamStops))
    /\ bus_route_cache = MkCache(CompleteRoutes(Svc970), NoRoutes)
    /\ InitTasks
    /\ user_reminders \in StoredDicts
    /\ sweep = IdleSweep
    /\ clock \in {[t |-> 0, due |-> d] : d \in 0..(UnitsPerMinute - 1)}
    /\ outbox = [day |-> 0, n |-> EmptyMap]

NextClock ==
    \/ ClockAdvance
    \/ TickStart
    \/ SweepOuter
    \/ \E answer \in Arrivals : SweepInner(answer)
    \/ \E ok \in BOOLEAN : SendDone(ok)

SpecClock == InitClock /\ [][NextClock]_vars

(***************************************************************************)
(* Properties of the schedule                                              *)
(***************************************************************************)
StoredReminders ==
    UNION {{user_reminders[i].value[j] : j \in 1..Len(user_reminders[i].value)} :
              i \in DictLive(user_reminders)}

\* the minute of the day a stored "HH:MM" names
ParseHHMM(time) ==
    (DigitVal(time[1]) * 10 + DigitVal(time[2])) * 60
      + DigitVal(time[4]) * 10 + DigitVal(time[5])

\* C5: when a tick of check_reminders ends by a failure on one reminder,
\* every reminder due in that tick has had its notification attempted.
C5_FailureDoesNotStopSweep ==
    sweep.pc = "crashed" =>
        \A rem \in StoredReminders :
            (ParseHHMM(rem.time) = MinuteOfDayAt(sweep.at)
               /\ (rem.days = Everyday \/ WeekdayAt(sweep.at) \in 0..4))
            => rem.id \in sweep.tried

\* C6: whatever the spacing of the ticks, a stored reminder is notified at
\* most once in a calendar day.
C6_AtMostOncePerDay ==
    \A id \in DOMAIN outbox.n : outbox.n[id] <= 1

\* the tick of check_reminders that started last has ended
TickEnded == sweep.pc \in {"idle", "crashed"} /\ sweep.now # None

\* C7: a tick fires a stored reminder iff the reminder's stored HH:MM is the
\* tick's HH:MM and the reminder is an 'everyday' one or the tick's weekday
\* is Monday..Friday.
C7_TickFiresIffTimeAndDayMatch ==
    TickEnded =>
        \A rem \in StoredReminders :
            rem.id \in sweep.tried <=>
                /\ ParseHHMM(rem.time) = MinuteOfDayAt(sweep.at)
                /\ (rem.days = Everyday \/ WeekdayAt(sweep.at) \in 0..4)

\* the two tests of check_reminders alone: a reminder the tick has reached
\* is fired iff its time and its day-scope match the tick's
ReachedFiresIffTimeAndDayMatch ==
    sweep.rem # NoReminder =>
        (sweep.fired <=>
            /\ ParseHHMM(sweep.rem.time) = MinuteOfDayAt(sweep.at)
            /\ (sweep.rem.days = Everyday \/ WeekdayAt(sweep.at) \in 0..4))

\* the tick that is running or ended last started at a minute later than
\* the reminder's, on the day of the tick before it, which started at a minute
\* earlier than the reminder's: no tick started in the reminder's minute
MinuteSkipped(rem) ==
    /\ sweep.now # None
    /\ sweep.prev >= 0
    /\ sweep.prev < sweep.at
    /\ WeekdayAt(sweep.prev) = WeekdayAt(sweep.at)
    /\ MinuteOfDayAt(sweep.prev) < ParseHHMM(rem.time)
    /\ ParseHHMM(rem.time) < MinuteOfDayAt(sweep.at)

\* C23: a tick that starts at a minute other than a reminder's stored HH:MM
\* never sends it, whether or not a tick started in the reminder's minute: a
\* reminder whose minute passed without a tick is not sent by a later tick
\* of the day.
C23_MissedMinuteIsNotCaughtUp ==
    \A rem \in StoredReminders :
        /\ (sweep.now # None
              /\ MinuteOfDayAt(sweep.at) # ParseHHMM(rem.time)) =>
                 /\ rem.id \notin sweep.tried
                 /\ ~(sweep.pc = "send" /\ sweep.rem.id = rem.id)
        /\ MinuteSkipped(rem) => rem.id \notin sweep.tried

C23_Witness ==
    /\ sweep.pc = "inner"
    /\ sweep.rem # NoReminder
    /\ sweep.rem \in StoredReminders
    /\ sweep.rem.days = Everyday
    /\ MinuteSkipped(sweep.rem)
    /\ ~sweep.fired
    /\ sweep.rem.id \notin DOMAIN outbox.n

\* the tick is at the send of an arrival message
SendsArrival == sweep.pc = "send" /\ sweep.arrival.found

\* C14: for a timestamp the number of minutes is max(0, floor((timestamp -
\* now) / 60 s)), never negative: 0 for 90 seconds ago, 3 for 3 minutes
\* ahead; an absent or unparseable timestamp gives no number.
C14_MinutesClampedAtZero ==
    SendsArrival =>
        LET e == sweep.arrival.NextBus
            d == e.at - NowSeconds(sweep.at)
        IN  /\ e.kind = "stamp"
                => /\ sweep.msg.next = Minutes(Max(0, d \div 60))
                   /\ sweep.msg.next.min >= 0
                   /\ d = -90 => sweep.msg.next.min = 0
                   /\ d = 180 => sweep.msg.next.min = 3
            /\ e.kind # "stamp"
                => sweep.msg.next = NoMinutes /\ sweep.msg.band = "nodata"
            /\ sweep.msg.second.min >= 0

\* the first bus was due 90 seconds ago
C14_Witness ==
    /\ SendsArrival
    /\ sweep.arrival.NextBus = Stamp(NowSeconds(sweep.at) - 90)
    /\ sweep.msg.next = Minutes(0)

C15_OneMessagePerDueReminder ==
    /\ sweep.pc = "send" =>
          /\ sweep.fired
          /\ sweep.msg.bus = sweep.rem.bus_number
          /\ sweep.msg.kind = IF sweep.arrival.found THEN "arrival" ELSE "notice"
    /\ TickEnded =>
          \A rem \in StoredReminders :
              IF /\ ParseHHMM(rem.time) = MinuteOfDayAt(sweep.at)
                 /\ (rem.days = Everyday \/ WeekdayAt(sweep.at) \in 0..4)
              THEN rem.id \in sweep.tried
              ELSE rem.id \notin sweep.tried

(***************************************************************************)
(* Specification of one sweep among handlers that change the reminders     *)
(***************************************************************************)
DayTexts == {Weekdays, Everyday}

TimeTexts ==
    {<<" ">> \o T0800, <<"8", ":", "0", "0">>, <<"2", "5", ":", "0", "0">>}

DeleteArgs == {None, <<"1">>, <<"2">>, <<"0">>, <<"x">>}

\* chat 1 has had its bus stop validated and is asked for the days; a tick
\* is due on Monday at 08:00
InitSweep ==
    /\ InitBoot
    /\ all_bus_stops_cache = DirAfter(Len(UpstreamStops))
    /\ bus_route_cache = MkCache(CompleteRoutes(Svc970), NoRoutes)
    /\ conv = [c \in Chats |-> IF c = 1 THEN "ASK_DAYS" ELSE "END"]
    /\ user_data =
         [c \in Chats |->
            IF c = 1
            THEN [NoData EXCEPT !.bus_number = Svc970,
                                !.bus_stop_code = Code28009,
                                !.bus_stop_name = <<"J", "u", " ", "I", "n", "t">>]
            ELSE NoData]
    /\ queue = <<>>
    /\ h = [c \in Chats |-> IdleH]
    /\ calls = [first |-> EmptyMap, wrote |-> EmptyMap, writes |-> EmptyMap,
              none |-> {}]
    /\ user_reminders \in StoredDicts
    /\ sweep = IdleSweep
    /\ clock = [t |-> UnitsPerMinute, due |-> 0]
    /\ outbox = [day |-> 0, n |-> EmptyMap]

NextSweep ==
    \/ \E c \in Chats :
        \/ \E data \in DayTexts : SendDays(c, data)
        \/ \E text \in TimeTexts : SendTime(c, text)
        \/ \E arg \in DeleteArgs : SendDeleteReminder(c, arg)
        \/ AskTime(c)
        \/ AskTimeAnswered(c)
        \/ SaveReminder(c)
        \/ DeleteReminder(c)
        \/ DeleteReminderResume(c)
        \/ Finish(c)
    \/ TickStart
    \/ SweepOuter
    \/ \E answer \in ArrivalsFew : SweepInner(answer)
    \/ \E ok \in BOOLEAN : SendDone(ok)

SpecSweep == InitSweep /\ [][NextSweep]_vars

\* C4: a deletion or a creation of a reminder that interleaves with a sweep
\* suspended at a message send never makes the sweep fail in its iteration.
C4_SweepSurvivesStoreChanges ==
    ~(sweep.pc = "crashed" /\ sweep.err = "RuntimeError")

\* C25: while the sweep is inside a subscriber's list, every reminder of the
\* list that is due in the tick has had its notification attempted or is
\* still ahead of the sweep, whatever was deleted from the list meanwhile.
C25_DeletionSkipsNoDueReminder ==
    sweep.pc \in {"inner", "send"} =>
        LET reminders == user_reminders[sweep.ent].value
        IN  \A j \in 1..Len(reminders) :
               Due(reminders[j], sweep.now, sweep.weekday) =>
                  reminders[j].id \in sweep.tried \/ j > sweep.li

\* C26: no key of user_reminders maps to an empty list.
C26_NoKeyWithEmptyList ==
    \A i \in DictLive(user_reminders) : user_reminders[i].value # <<>>

(***************************************************************************)
(* Specification of the process: startup, the handlers of the reminders,   *)
(* the record store, restart                                               *)
(***************************************************************************)
T2359 == <<"2", "3", ":", "5", "9">>

TimeTextsAll ==
    { <<" ">> \o T0800, T2359,
      <<"8", ":", "0", "0">>,
      <<"2", "5", ":", "0", "0">>,
      <<"0", "8", ":", "6", "0">>,
      <<"1", ArabicThree, ":", "0", ArabicThree>>,
      <<ArabicThree, "0", ":", "0", "0">> }

DeleteArgsAll == DeleteArgs \cup {<<"3">>, <<"-", "1">>}

DbIds == {"", "r1", "r3"}

DbItems == {Item("r1", 1), Item("r2", 2)}

\* the process is started again: the module globals are those of lines
\* 25-27 and 33, the conversations and the tasks of the old process are
\* gone, and main() returns when the token is missing and calls
\* load_all_bus_stops otherwise; the upstream listing has n rows
Restart(n, token, key) ==
    /\ loader.pc \in {"done", "raised", "exit"}
    /\ queue = <<>>
    /\ \A c \in Chats : h[c].pc = "idle"
    /\ loader' = [pc |-> IF token THEN "load" ELSE "exit", rows |-> n,
                  skip |-> 0, reqs |-> 0, end |-> "",
                  token |-> token, key |-> key]
    /\ all_bus_stops_cache' = EmptyMap
    /\ bus_route_cache' = EmptyMap
    /\ user_reminders' = <<>>
    /\ conv' = [c \in Chats |-> "END"]
    /\ user_data' = [c \in Chats |-> NoData]
    /\ h' = [c \in Chats |-> IdleH]
    /\ calls' = [first |-> EmptyMap, wrote |-> EmptyMap, writes |-> EmptyMap,
                 none |-> {}]
    /\ sweep' = IdleSweep
    /\ UNCHANGED <<queue, clock, outbox, table, effective_user>>

\* the application is polling and chat 1 is asked for the days; the table
\* holds items written by add_reminder
InitProcess ==
    /\ loader = NoLoad
    /\ table = [items |-> DbItems, last |-> NoDbCall]
    /\ effective_user = [c \in Chats |-> c]
    /\ all_bus_stops_cache = DirAfter(Len(UpstreamStops))
    /\ bus_route_cache = MkCache(CompleteRoutes(Svc970), NoRoutes)
    /\ conv = [c \in Chats |-> IF c = 1 THEN "ASK_DAYS" ELSE "END"]
    /\ user_data =
         [c \in Chats |->
            IF c = 1
            THEN [NoData EXCEPT !.bus_number = Svc970,
                                !.bus_stop_code = Code28009,
                                !.bus_stop_name = <<"J", "u", " ", "I", "n", "t">>]
            ELSE NoData]
    /\ queue = <<>>
    /\ h = [c \in Chats |-> IdleH]
    /\ calls = [first |-> EmptyMap, wrote |-> EmptyMap, writes |-> EmptyMap,
              none |-> {}]
    /\ user_reminders \in StoredDicts
    /\ sweep = IdleSweep
    /\ clock = [t |-> 0, due |-> UnitsPerMinute]
    /\ outbox = [day |-> 0, n |-> EmptyMap]

NextProcess ==
    \/ \E c \in Chats :
        \/ \E data \in DayTexts : SendDays(c, data)
        \/ \E text \in TimeTextsAll : SendTime(c, text)
        \/ \E arg \in DeleteArgsAll : SendDeleteReminder(c, arg)
        \/ AskTime(c)
        \/ AskTimeAnswered(c)
        \/ SaveReminder(c)
        \/ DeleteReminder(c)
        \/ DeleteReminderResume(c)
        \/ Finish(c)
    \/ \E n \in 0..Len(UpstreamStops), token \in BOOLEAN, key \in BOOLEAN :
          Restart(n, token, key)
    \/ \E o \in LoadOutcomes : LoadPage(o)
    \/ MainRun
    \/ \E reminder_id \in DbIds, o \in {"ok", "ClientError"} :
          DbDeleteReminder(reminder_id, o)

SpecProcess == InitProcess /\ [][NextProcess]_vars

\* a text of the form DD:DD, D a decimal digit, whose hour is in 00..23 and
\* whose minute is in 00..59
ValidTime(t) ==
    /\ Len(t) = 5
    /\ t[3] = ":"
    /\ {t[1], t[2], t[4], t[5]} \subseteq DecimalDigits
    /\ DigitVal(t[1]) * 10 + DigitVal(t[2]) \in 0..23
    /\ DigitVal(t[4]) * 10 + DigitVal(t[5]) \in 0..59

\* the step is save_reminder of chat c, up to its reply
SaveStep(c) == h[c].pc = "idle" /\ h'[c].fn = "save_reminder"

\* C16: every reminder save_reminder stores has a time of the form DD:DD
\* that is a valid 24-hour time; when the text sent (stripped) fails that,
\* save_reminder stores nothing and the conversation stays at ASK_TIME.
C16_StoredTimesAreValid ==
    [][\A c \in Chats :
          /\ SaveStep(c) =>
               /\ \A r \in StoredReminders' \ StoredReminders : ValidTime(r.time)
               /\ ~ValidTime(Strip(Head(queue).text)) =>
                    /\ user_reminders' = user_reminders
                    /\ h'[c].next = "ASK_TIME"
                    /\ conv'[c] = "ASK_TIME"
          /\ (h[c].fn = "save_reminder" /\ h[c].next = "ASK_TIME"
                /\ h'[c].pc = "idle" /\ Running') =>
               conv'[c] = "ASK_TIME"]_vars

C16_Witness ==
    \E c \in Chats :
        /\ h[c].fn = "save_reminder"
        /\ h[c].next = "END"
        /\ user_data[UserOf(c)].time = T2359
        /\ \E r \in StoredReminders : r.time = T2359

\* the step is delete_reminder of chat c, up to its reply
DeleteStep(c) == h[c].pc = "idle" /\ h'[c].fn = "delete_reminder"

\* the step is a call of dynamodb_helper.delete_reminder
DbDeleteStep == table' # table /\ table'.last.fn = "delete_reminder"

\* C17: /deletereminder with a number outside 1..len of the subscriber's
\* list replies with a failure and removes nothing, then and when the handler
\* returns; dynamodb_helper.delete_reminder with an id no item has returns
\* False and leaves the items of the table as they are; neither changes a
\* stored reminder of any subscriber.
C17_UnknownDeleteChangesNothing ==
    [][/\ \A c \in Chats :
            /\ (/\ DeleteStep(c)
                /\ IntOf(Head(queue).text).ok
                /\ IntOf(Head(queue).text).val
                      \notin 1..Len(RemindersOf(user_reminders, c))) =>
                  /\ h'[c].reply \in {"out of range", "no reminders"}
                  /\ user_reminders' = user_reminders
                  /\ table'.items = table.items
            /\ (/\ h[c].fn = "delete_reminder"
                /\ h[c].reply \in {"out of range", "no reminders"}
                /\ h'[c].pc = "idle") =>
                  /\ user_reminders' = user_reminders
                  /\ table'.items = table.items
       /\ (/\ DbDeleteStep
           /\ \A item \in table.items : item.reminder_id # table'.last.id) =>
             /\ table'.last.result = FALSE
             /\ table'.items = table.items
             /\ user_reminders' = user_reminders]_vars

C17_Witness ==
    /\ table.last = [fn |-> "delete_reminder", id |-> "r3", result |-> FALSE]
    /\ table.items = DbItems
    /\ \E c \in Chats :
          /\ h[c].fn = "delete_reminder"
          /\ h[c].reply = "out of range"
          /\ Len(RemindersOf(user_reminders, c)) = 2

\* load_all_bus_stops has ended
LoadEnded == loader.pc \in {"returned", "raised"}

\* the pages before the request that ended the loop are in the directory
\* (one request per page: no request is made again), and when no request
\* failed the loop has ended at an empty or short page with every row of the
\* listing in the directory
LoadKeptPages ==
    IF loader.end \in {"empty", "short"}
    THEN all_bus_stops_cache = DirAfter(loader.rows)
    ELSE all_bus_stops_cache =
           DirAfter(Min((loader.reqs - 1) * BatchSize, loader.rows))

\* whatever load_all_bus_stops ends by, the directory holds the pages loaded
\* before
LoadEndedKeepsPages == LoadEnded => LoadKeptPages

\* C18: load_all_bus_stops ends at the first failing page without a retry,
\* with the earlier pages in the directory, and at the first empty or short
\* page otherwise with every row loaded; it always returns to main().
C18_LoadReturnsWithPagesKept ==
    LoadEnded => loader.pc = "returned" /\ LoadKeptPages

\* the step starts the process again
RestartStep == loader.pc # "load" /\ loader'.pc = "load"

\* C20: a reminder save_reminder stores gets an item in the table of the
\* record store, and the reminders the sweep iterates over before a restart
\* of the process are those it iterates over after it.
C20_RemindersArePersisted ==
    [][/\ \A c \in Chats :
            (SaveStep(c) /\ h'[c].next = "END") =>
               \E item \in table'.items \ table.items : item.chat_id = c
       /\ RestartStep => StoredReminders' = StoredReminders]_vars

(***************************************************************************)
(* Specification of the reminder-setup conversation, from /setbusreminder  *)
(* to save_reminder, with re-entry and /cancel                             *)
(***************************************************************************)
SetupStopTexts == {Code28009, Code28019, <<"z", "z">>}

SetupTimeTexts == {T0800, <<"8", ":", "0", "0">>}

\* the route of 970 and of 12 are cached; chat 1 is the private chat of user
\* 1, chat 2 is the private chat of user 2 or a group in which user 1 writes
InitSetup ==
    /\ loader = NoLoad
    /\ table = [items |-> {}, last |-> NoDbCall]
    /\ effective_user \in {[c \in Chats |-> c], [c \in Chats |-> 1]}
    /\ all_bus_stops_cache = DirAfter(Len(UpstreamStops))
    /\ bus_route_cache = MkCache(CompleteRoutes(Svc970), CompleteRoutes(Svc12))
    /\ InitTasks
    /\ InitSweepIdle

\* the users of the setup conversation send an update when at most
\* MaxPending - 1 updates wait to be handled, and begin conversations until
\* a reminder is stored
SetupSendCommand(c) ==
    /\ Len(queue) < MaxPending
    /\ user_reminders = <<>>
    /\ SendSetBusReminder(c)

SetupSendCancel(c) ==
    /\ Len(queue) < MaxPending
    /\ SendCancel(c)

SetupSendBusNumber(c, text) ==
    /\ Len(queue) < MaxPending
    /\ SendBusNumber(c, text)

SetupSendStopInput(c, text) ==
    /\ Len(queue) < MaxPending
    /\ SendStopInput(c, text)

NextSetup ==
    \E c \in Chats :
        \/ SetupSendCommand(c)
        \/ SetupSendCancel(c)
        \/ \E text \in BusTexts : SetupSendBusNumber(c, text)
        \/ \E text \in SetupStopTexts : SetupSendStopInput(c, text)
        \/ SendDays(c, Everyday)
        \/ \E text \in SetupTimeTexts : SendTime(c, text)
        \/ SetBusReminder(c)
        \/ Cancel(c)
        \/ AskBusStop(c)
        \/ GbrRequest(c, "ok")
        \/ AskBusStopResume(c)
        \/ ValidateStop(c)
        \/ ValidateResume(c)
        \/ AskTime(c)
        \/ AskTimeAnswered(c)
        \/ SaveReminder(c)
        \/ Finish(c)

SpecSetup == InitSetup /\ [][NextSetup]_vars

\* get_bus_routes returns a non-empty route for the bus number, and
\* validate_bus_stop_input accepts the stop code for it: the code is in the
\* directory and on the route
ValidatedFor(bus_number, stop_code) ==
    /\ bus_number \in DOMAIN bus_route_cache
    /\ bus_route_cache[bus_number] # <<>>
    /\ stop_code \in DOMAIN all_bus_stops_cache
    /\ \E i \in 1..Len(bus_route_cache[bus_number]) :
          bus_route_cache[bus_number][i].BusStopCode = stop_code

\* no other chat of the model has the user of chat c
PrivateChat(c) == \A d \in Chats \ {c} : effective_user[d] # effective_user[c]

\* in a chat whose user writes in no other chat, the reminder save_reminder
\* stores has a bus number and a stop code validated together
PrivateChatStoresValidated ==
    [][\A c \in Chats :
          (SaveStep(c) /\ h'[c].next = "END" /\ PrivateChat(c)) =>
             \A r \in StoredReminders' \ StoredReminders :
                ValidatedFor(r.bus_number, r.bus_stop)]_vars

\* C24: the reminder save_reminder stores has a bus number with a non-empty
\* route and a stop code that validate_bus_stop_input accepts for that bus
\* number.
C24_StoredReminderWasValidated ==
    [][\A c \in Chats :
          (SaveStep(c) /\ h'[c].next = "END") =>
             \A r \in StoredReminders' \ StoredReminders :
                ValidatedFor(r.bus_number, r.bus_stop)]_vars

\* main() has not gone past its test of the token: the directory is not
\* loaded, the sweep is not scheduled, no update is handled
NotStarted ==
    /\ loader.pc = "exit"
    /\ all_bus_stops_cache = EmptyMap
    /\ sweep.pc = "idle"
    /\ \A c \in Chats : h[c].pc = "idle"

\* without TELEGRAM_BOT_TOKEN the process does not start
NoStartWithoutToken == ~loader.token => NotStarted

\* C21: when TELEGRAM_BOT_TOKEN or LTA_API_KEY is missing from the
\* environment, the process does not start.
C21_NoStartWithoutCredentials == (~loader.token \/ ~loader.key) => NotStarted

====
